---- MODULE Spec2Model ----
(***************************************************************************)
(* A model of macos-defaults: the plist value merge (src/defaults.rs,      *)
(* merge_value / deep_merge_dictionaries / replace_ellipsis_array), the    *)
(* resolution of a preference domain to a plist path (plist_path), the     *)
(* load of a store by apply and by dump, the apply of a preference map to  *)
(* a store (write_defaults_values, write_plist) and the apply command      *)
(* over files, documents and domains (main, apply_defaults,                *)
(* process_yaml_document).                                                 *)
(***************************************************************************)
EXTENDS Integers, Sequences, FiniteSets, TLC

VARIABLES
    \* merge harness: one call of a merge function on (new_value, old_value)
    new_value, old_value, op, result, result2,
    \* the host: home directory lookup, hardware UUID query, file system
    home_dir, hardware_uuid, files,
    dirs, sudo_calls,
    \* path harness: one call of plist_path(domain, current_host), or of the
    \* resolve-and-load of a caller (store_read: the caller and what it got)
    domain, current_host, resolved, store_read,
    \* apply: the call of write_defaults_values in progress, its position and
    \* the result of the last call that returned
    pc, call, outcome, applies,
    \* the apply command: the position of main / apply_defaults /
    \* process_yaml_document, the document being applied, the entries of its
    \* domain map not yet visited, the results collected, the processes killed,
    \* the result of the document, the change flags and the exit status;
    \* changes_applied records that some call of write_defaults_values of the
    \* run returned Ok(true)
    dpc, config, defaults, results, killed, document_result,
    any_changed, changed, exit_status, documents_read, changes_applied

mergeVars == <<new_value, old_value, op, result, result2>>
hostVars == <<home_dir, hardware_uuid, files, dirs, sudo_calls>>
pathVars == <<domain, current_host, resolved, store_read>>
applyVars == <<pc, call, outcome, applies>>
docVars == <<dpc, config, defaults, results, killed, document_result,
             any_changed, changed, exit_status, documents_read, changes_applied>>
vars == <<mergeVars, hostVars, pathVars, applyVars, docVars>>

(***************************************************************************)
(* Bounds of the model.                                                    *)
(***************************************************************************)
MaxInt == 2      \* integers 1..MaxInt occur as plist scalars
MaxLen == 3      \* longest array drawn as an input
MaxKeys == 2     \* most keys of a nested input dictionary
MaxDomainLen == 3    \* most tokens of a domain name given to plist_path
MaxApplies == 2      \* calls of write_defaults_values in one run

(***************************************************************************)
(* plist::Value.  A value is a tagged tuple; equality is structural and    *)
(* type sensitive.  A dictionary is a function from its keys to values     *)
(* (plist::Dictionary compares as a map, whatever the insertion order).    *)
(***************************************************************************)
ELLIPSIS == "..."
BANG == "!"

Integer(n) == <<"signed_integer", n>>
String(s) == <<"string", s>>
Array(s) == <<"array", s>>
Dictionary(f) == <<"dictionary", f>>
None == <<"none">>

\* Result<T, E>
Ok(v) == [ok |-> TRUE, value |-> v]
Err(e) == [ok |-> FALSE, error |-> e]

IsArray(v) == v[1] = "array"
IsDict(v) == v[1] = "dictionary"
EmptyDict == Dictionary(<<>>)

\* Dictionary::remove
DictRemove(d, k) == [x \in (DOMAIN d) \ {k} |-> d[x]]
\* Dictionary::insert
DictInsert(d, k, v) == [x \in (DOMAIN d) \cup {k} |-> IF x = k THEN v ELSE d[x]]
\* Dictionary::get, as an Option
DictGet(d, k) == IF k \in DOMAIN d THEN d[k] ELSE None

\* Vec::contains
Contains(s, e) == \E i \in 1..Len(s) : s[i] = e
\* Iterator::position: index of the first element equal to e
Position(s, e) == CHOOSE i \in 1..Len(s) : s[i] = e /\ \A j \in 1..(i - 1) : s[j] # e
\* Vec::remove
RemoveAt(s, i) == SubSeq(s, 1, i - 1) \o SubSeq(s, i + 1, Len(s))

(***************************************************************************)
(* replace_ellipsis_array                                                  *)
(***************************************************************************)
RECURSIVE PushOld(_, _)
\* the inner loop: push every old element the result does not contain yet
PushOld(acc, old_array) ==
    IF old_array = <<>> THEN acc
    ELSE PushOld(IF Contains(acc, Head(old_array)) THEN acc ELSE Append(acc, Head(old_array)),
                 Tail(old_array))

RECURSIVE EllipsisLoop(_, _, _)
\* the outer loop over array_copy, building new_array
EllipsisLoop(array_copy, old_array, acc) ==
    IF array_copy = <<>> THEN acc
    ELSE LET element == Head(array_copy) IN
         EllipsisLoop(Tail(array_copy), old_array,
             IF element = String(ELLIPSIS) THEN PushOld(acc, old_array)
             ELSE IF ~Contains(acc, element) THEN Append(acc, element)
             ELSE acc)

replace_ellipsis_array(new, old) ==
    IF ~IsArray(new) THEN new
    ELSE IF ~Contains(new[2], String(ELLIPSIS)) THEN new
    ELSE IF ~IsArray(old) THEN Array(RemoveAt(new[2], Position(new[2], String(ELLIPSIS))))
    ELSE Array(EllipsisLoop(new[2], old[2], <<>>))

(***************************************************************************)
(* deep_merge_dictionaries and merge_value                                 *)
(***************************************************************************)
RECURSIVE deep_merge_dictionaries(_, _)
RECURSIVE merge_value(_, _)

IsEmptyNeverSkips(new_dict) == FALSE
\* new_dict.is_empty(): the merge is skipped for an empty new dictionary
IsEmpty(new_dict) == DOMAIN new_dict = {}

ContainsBangNever(new_dict) == FALSE
\* new_dict.contains_key(BANG)
ContainsBang(new_dict) == BANG \in DOMAIN new_dict

CopyOldKeysOldWins(new_dict, old_dict) ==
    [key \in (DOMAIN new_dict) \cup (DOMAIN old_dict) |->
        IF key \in DOMAIN old_dict THEN old_dict[key] ELSE new_dict[key]]
\* the final loop: insert every old key that new_dict does not contain
CopyOldKeys(new_dict, old_dict) ==
    [key \in (DOMAIN new_dict) \cup (DOMAIN old_dict) |->
        IF key \in DOMAIN new_dict THEN new_dict[key] ELSE old_dict[key]]

\* the loop over new_dict: merge every child against the old child of the same key
MergeChildren(new_dict, old_dict) ==
    [key \in DOMAIN new_dict |-> merge_value(new_dict[key], DictGet(old_dict, key))]

deep_merge_dictionaries(new, old) ==
    IF ~IsDict(new) THEN new
    ELSE IF IsEmpty(new[2]) THEN new
    ELSE LET new_dict == DictRemove(new[2], ELLIPSIS) IN
         IF ~IsDict(old) THEN Dictionary(new_dict)
         ELSE LET merged == MergeChildren(new_dict, old[2]) IN
              IF ContainsBang(merged) THEN Dictionary(DictRemove(merged, BANG))
              ELSE Dictionary(CopyOldKeys(merged, old[2]))

merge_value(new, old) ==
    replace_ellipsis_array(deep_merge_dictionaries(new, old), old)

(***************************************************************************)
(* plist_path.  A domain is a sequence of text tokens ("/", a name,        *)
(* ".plist", ...) whose concatenation is the domain string; a path is the  *)
(* sequence of its components (a path given as an absolute domain is kept  *)
(* whole, as one component).                                               *)
(***************************************************************************)
NS_GLOBAL_DOMAIN == <<"NSGlobalDomain">>

RECURSIVE Text(_)
\* the string a token sequence stands for
Text(tokens) == IF tokens = <<>> THEN "" ELSE Head(tokens) \o Text(Tail(tokens))

\* str::starts_with('/')
StartsWithSlash(d) == Len(d) > 0 /\ d[1] = "/"

RECURSIVE trim_end_matches(_, _)
\* str::trim_end_matches: removes the suffix repeatedly
trim_end_matches(d, suffix) ==
    IF Len(d) > 0 /\ d[Len(d)] = suffix
    THEN trim_end_matches(SubSeq(d, 1, Len(d) - 1), suffix)
    ELSE d

NonEmpty(component) == component # ""
\* Utf8PathBuf::extend: pushing an empty component adds no component
Extend(path, components) == path \o SelectSeq(components, NonEmpty)

\* Utf8Path::exists
Exists(path) == path \in DOMAIN files

get_hardware_uuid == hardware_uuid

plist_filename(name, cur_host) ==
    IF cur_host
    THEN IF get_hardware_uuid.ok
         THEN Ok(name \o "." \o get_hardware_uuid.value \o ".plist")
         ELSE Err("EyreError")
    ELSE Ok(name \o ".plist")

extend_with_prefs_folders(cur_host, path, filename) ==
    IF cur_host
    THEN Extend(path, <<"Library", "Preferences", "ByHost", filename>>)
    ELSE Extend(path, <<"Library", "Preferences", filename>>)

plist_path(dom, cur_host) ==
    IF StartsWithSlash(dom) THEN Ok(<<Text(dom)>>)
    ELSE IF ~home_dir.ok THEN Err("home_dir")
    ELSE IF dom = NS_GLOBAL_DOMAIN
    THEN LET filename == plist_filename(".GlobalPreferences", cur_host) IN
         IF ~filename.ok THEN filename
         ELSE Ok(extend_with_prefs_folders(cur_host, <<home_dir.value>>, filename.value))
    ELSE LET trimmed == trim_end_matches(dom, ".plist")
             filename == plist_filename(Text(trimmed), cur_host)
         IN  IF ~filename.ok THEN filename
             ELSE LET sandboxed_plist_path ==
                          extend_with_prefs_folders(cur_host,
                              Extend(<<home_dir.value>>,
                                     <<"Library", "Containers", Text(trimmed), "Data">>),
                              filename.value)
                  IN  IF Exists(sandboxed_plist_path) THEN Ok(sandboxed_plist_path)
                      ELSE Ok(extend_with_prefs_folders(cur_host, <<home_dir.value>>,
                                                        filename.value))

(***************************************************************************)
(* The path harness: a caller picks a domain, the current_host flag and a  *)
(* host, and calls plist_path.                                             *)
(***************************************************************************)
HOME == "/Users/me"
UUID == "0000-UUID"
Tokens == {"/", "x", "NSGlobalDomain", ".plist"}
\* domain names: "/" occurs only in front (an absolute path)
Domains ==
    {d \in UNION {[1..k -> Tokens] : k \in 0..MaxDomainLen} :
        \A i \in 2..Len(d) : d[i] # "/"}

NotCalled == Err("not called")
\* a plist file: its encoding and the value it holds
PlistFile(binary, value) == [binary |-> binary, value |-> value]
\* the sandboxed preference files of the domain x
SandboxFiles ==
    {<<HOME, "Library", "Containers", "x", "Data", "Library", "Preferences", "x.plist">>,
     <<HOME, "Library", "Containers", "x", "Data", "Library", "Preferences", "ByHost",
       "x." \o UUID \o ".plist">>}

MergeIdle ==
    /\ new_value = None /\ old_value = None /\ op = "idle"
    /\ result = None /\ result2 = None
NotLoaded == <<"none", NotCalled>>
PathIdle ==
    /\ domain = <<>> /\ current_host = FALSE /\ resolved = NotCalled
    /\ store_read = NotLoaded
HostIdle ==
    /\ home_dir = Ok(HOME) /\ hardware_uuid = Ok(UUID) /\ files = <<>>
    /\ dirs = {} /\ sudo_calls = 0
ApplyIdle ==
    /\ pc = "idle" /\ call = <<>> /\ outcome = NotCalled /\ applies = 0
\* a document that serde_yaml does not read as MacOSDefaults, or without data
InvalidDocument == [valid |-> FALSE]
DocIdle ==
    /\ dpc = "idle" /\ config = InvalidDocument /\ defaults = <<>> /\ results = <<>>
    /\ killed = <<>> /\ document_result = NotCalled
    /\ any_changed = FALSE /\ changed = FALSE /\ exit_status = <<"idle">>
    /\ documents_read = 0 /\ changes_applied = FALSE

InitPath ==
    /\ domain \in Domains
    /\ current_host \in BOOLEAN
    /\ home_dir \in {Ok(HOME), Err("no home directory")}
    /\ hardware_uuid \in {Ok(UUID), Err("ioreg failed")}
    /\ files \in {[p \in S |-> PlistFile(TRUE, EmptyDict)] : S \in SUBSET SandboxFiles}
    /\ resolved = NotCalled
    /\ store_read = NotLoaded
    /\ dirs = {} /\ sudo_calls = 0
    /\ MergeIdle /\ ApplyIdle /\ DocIdle

CallPlistPath ==
    /\ resolved = NotCalled
    /\ resolved' = plist_path(domain, current_host)
    /\ UNCHANGED <<domain, current_host, store_read, hostVars, mergeVars, applyVars, docVars>>

NextPath == CallPlistPath

SpecPath == InitPath /\ [][NextPath]_vars

(***************************************************************************)
(* write_defaults_values and write_plist.  A call runs in steps: the       *)
(* resolve / load / merge part, then the backup of an existing file or the *)
(* creation of the parent directory, then the direct write, then the write *)
(* through `sudo tee` when the direct write failed with an I/O error.      *)
(***************************************************************************)
\* the content of a file that is not a readable plist (truncated, partial)
Corrupt == <<"corrupt">>

\* what stands for the content of a path that does not exist
NoFile == PlistFile(FALSE, <<"absent">>)

\* format!("{plist_path}.prev")
BackupPath(path) == [path EXCEPT ![Len(path)] = path[Len(path)] \o ".prev"]
\* Utf8Path::parent: the path without its last component (for an absolute
\* domain, kept whole as one component, the empty sequence stands for "/")
Parent(path) == SubSeq(path, 1, Len(path) - 1)

\* plist::from_file of an existing file, an empty dictionary otherwise
LoadPlist(path) ==
    IF Exists(path)
    THEN IF files[path].value = Corrupt THEN Err("PlistRead") ELSE Ok(files[path].value)
    ELSE Ok(EmptyDict)

\* plist::from_file
from_file(path) ==
    IF ~Exists(path) \/ files[path].value = Corrupt THEN Err("PlistRead")
    ELSE Ok(files[path].value)

\* write_defaults_values: the resolve and the load of the store
ApplyLoad ==
    /\ store_read = NotLoaded
    /\ resolved' = plist_path(domain, current_host)
    /\ store_read' = <<"apply", IF resolved'.ok THEN LoadPlist(resolved'.value) ELSE resolved'>>
    /\ UNCHANGED <<domain, current_host, hostVars, mergeVars, applyVars, docVars>>

\* dump: the resolve and the load of the store
DumpLoad ==
    /\ store_read = NotLoaded
    /\ resolved' = plist_path(domain, current_host)
    /\ store_read' = <<"dump", IF resolved'.ok THEN from_file(resolved'.value) ELSE resolved'>>
    /\ UNCHANGED <<domain, current_host, hostVars, mergeVars, applyVars, docVars>>

NextLoad ==
    \/ ApplyLoad
    \/ DumpLoad

\* the callers of resolve-and-load, on the hosts and domains of the path harness
SpecLoad == InitPath /\ [][NextLoad]_vars

WipeAlways(plist_value, prefs) == EmptyDict
\* the top-level "!" key: wipe the loaded value
WipeIfBang(plist_value, prefs) ==
    IF BANG \in DOMAIN prefs THEN EmptyDict ELSE plist_value

SkipKeyNever(old, new) == FALSE
\* `if let Some(old_value) = old_value { if old_value == &new_value { continue } }`
SkipKey(old, new) == old # None /\ old = new

\* get_plist_value_type: the tag of a value is the name of its type
get_plist_value_type(plist) == plist[1]

\* E::NotADictionary { domain, key, plist_type }
NotADictionary(dom, key, plist_type) ==
    [ok |-> FALSE, error |-> "NotADictionary",
     domain |-> Text(dom), key |-> key, plist_type |-> plist_type]

\* the keys the loop over prefs may visit first (the order of a HashMap);
\* none for an empty map
FirstKeys(prefs) == IF DOMAIN prefs = {} THEN {""} ELSE DOMAIN prefs

\* the loop over prefs, first_key being visited first: merge every value
\* against the stored one and insert those that differ
MergeLoop(dom, plist_value, prefs, first_key) ==
    IF DOMAIN prefs # {} /\ ~IsDict(plist_value)
    THEN NotADictionary(dom, first_key, get_plist_value_type(plist_value))
    ELSE IF DOMAIN prefs = {} THEN Ok([value |-> plist_value, changed |-> FALSE])
    ELSE LET old == plist_value[2]
             merged(key) == merge_value(prefs[key], DictGet(old, key))
             inserted == {key \in DOMAIN prefs : ~SkipKey(DictGet(old, key), merged(key))}
         IN  Ok([value |-> Dictionary([key \in (DOMAIN old) \cup inserted |->
                                          IF key \in inserted THEN merged(key) ELSE old[key]]),
                 changed |-> inserted # {}])

\* is_binary: the first 8 bytes are the magic of a binary plist
is_binary(path) == files[path].binary

ShouldWriteBinaryOnlyNew(plist_path_exists, path) == ~plist_path_exists
\* should_write_binary
ShouldWriteBinary(plist_path_exists, path) == ~plist_path_exists \/ is_binary(path)

\* the file a write (plist::to_file_binary / to_file_xml / sudo tee) leaves
Written(path, binary, value) ==
    [p \in (DOMAIN files) \cup {path} |->
        IF p = path THEN PlistFile(binary, value) ELSE files[p]]
\* a write that failed after the file was created or truncated
Truncated(path) ==
    [p \in (DOMAIN files) \cup {path} |->
        IF p = path THEN PlistFile(FALSE, Corrupt) ELSE files[p]]

Return(r) ==
    /\ pc' = "idle"
    /\ outcome' = r

\* write_defaults_values up to the decision to write
Begin(dom, prefs, cur_host) ==
    /\ pc = "idle"
    /\ applies < MaxApplies
    /\ applies' = applies + 1
    /\ LET path == plist_path(dom, cur_host)
           entry == [domain |-> dom, prefs |-> prefs, current_host |-> cur_host]
       IN
       IF ~path.ok
       THEN /\ Return(Err("plist_path"))
            /\ call' = entry
       ELSE LET plist_path_exists == Exists(path.value)
                loaded == LoadPlist(path.value)
            IN
            IF ~loaded.ok
            THEN /\ Return(loaded)
                 /\ call' = entry
            ELSE \E first_key \in FirstKeys(DictRemove(prefs, BANG)) :
                 LET merged == MergeLoop(dom, WipeIfBang(loaded.value, prefs),
                                         DictRemove(prefs, BANG), first_key)
                 IN
                 IF ~merged.ok
                 THEN /\ Return(merged)
                      /\ call' = entry
                 ELSE IF ~merged.value.changed
                 THEN /\ Return(Ok(FALSE))
                      /\ call' = entry
                 ELSE /\ pc' = IF plist_path_exists THEN "backup" ELSE "create_dir"
                      /\ call' = [plist_path |-> path.value,
                                  plist_path_exists |-> plist_path_exists,
                                  old_file |-> IF plist_path_exists THEN files[path.value]
                                               ELSE NoFile,
                                  plist_value |-> merged.value.value] @@ entry
                      /\ UNCHANGED outcome
    /\ UNCHANGED <<hostVars, mergeVars, pathVars>>

CopyNothing(from, to) == files
\* the file system after a successful fs::copy(from, to)
Copy(from, to) ==
    [p \in (DOMAIN files) \cup {to} |-> IF p = to THEN files[from] ELSE files[p]]

\* the backup of an existing file: fs::copy(&plist_path, &backup_path)
Backup ==
    /\ pc = "backup"
    /\ \E copied \in BOOLEAN :
        IF copied
        THEN /\ files' = Copy(call.plist_path, BackupPath(call.plist_path))
             /\ pc' = "write"
             /\ UNCHANGED outcome
        ELSE /\ Return(Err("FileCopy"))
             /\ UNCHANGED files
    /\ UNCHANGED <<home_dir, hardware_uuid, dirs, sudo_calls, call, applies, mergeVars, pathVars, docVars>>

\* fs::create_dir_all(plist_dirpath)
CreateDir ==
    /\ pc = "create_dir"
    /\ \E created \in BOOLEAN :
        IF created
        THEN /\ dirs' = dirs \cup {Parent(call.plist_path)}
             /\ pc' = "write"
             /\ UNCHANGED outcome
        ELSE /\ Return(Err("DirCreation"))
             /\ UNCHANGED dirs
    /\ UNCHANGED <<home_dir, hardware_uuid, files, sudo_calls, call, applies, mergeVars, pathVars, docVars>>

\* write_plist: the direct write.  It succeeds, or fails with a plist error
\* that is not an I/O error, or with an I/O error: permission denied when the
\* file is opened (nothing written) or another I/O error (the file may have
\* been truncated).
DirectWrite ==
    /\ pc = "write"
    /\ LET binary == ShouldWriteBinary(call.plist_path_exists, call.plist_path) IN
       /\ \E write_result \in {"ok", "plist_error", "permission_denied", "io_error", "io_error_truncated"} :
            /\ call' = [should_write_binary |-> binary, write_result |-> write_result] @@ call
            /\ CASE write_result = "ok" ->
                        /\ files' = Written(call.plist_path, binary, call.plist_value)
                        /\ Return(Ok(TRUE))
                 [] write_result = "plist_error" ->
                        /\ files' = Truncated(call.plist_path)
                        /\ Return(Err("PlistWrite"))
                 [] write_result \in {"permission_denied", "io_error"} ->
                        /\ pc' = "sudo"
                        /\ UNCHANGED <<files, outcome>>
                 [] write_result = "io_error_truncated" ->
                        /\ files' = Truncated(call.plist_path)
                        /\ pc' = "sudo"
                        /\ UNCHANGED outcome
    /\ UNCHANGED <<home_dir, hardware_uuid, dirs, sudo_calls, applies, mergeVars, pathVars, docVars>>

\* write_plist: the fallback, the serialized bytes piped into `sudo tee <path>`
SudoWrite ==
    /\ pc = "sudo"
    /\ \E run_result \in {"ok", "failed", "failed_truncated"} :
        /\ sudo_calls' = sudo_calls + 1
        /\ CASE run_result = "ok" ->
                   /\ files' = Written(call.plist_path, call.should_write_binary, call.plist_value)
                   /\ Return(Ok(TRUE))
             [] run_result = "failed" ->
                   /\ UNCHANGED files
                   /\ Return(Err("PlistSudoWrite"))
             [] run_result = "failed_truncated" ->
                   /\ files' = Truncated(call.plist_path)
                   /\ Return(Err("PlistSudoWrite"))
    /\ UNCHANGED <<home_dir, hardware_uuid, dirs, call, applies, mergeVars, pathVars, docVars>>

(***************************************************************************)
(* The apply run: a host with at most one preference file, and calls of    *)
(* write_defaults_values with a domain, a preference map and the           *)
(* current_host flag of the document.                                      *)
(***************************************************************************)
StandardPath == <<HOME, "Library", "Preferences", "x.plist">>
SandboxedPath ==
    <<HOME, "Library", "Containers", "x", "Data", "Library", "Preferences", "x.plist">>
AbsolutePath == <<"/x">>

\* the file systems before the run: the stored values hold no marker
InitialFileSystems ==
    {<<>>,
     [p \in {StandardPath} |->
         PlistFile(TRUE, Dictionary([j |-> Integer(1), k |-> Array(<<Integer(2)>>)]))],
     [p \in {StandardPath} |-> PlistFile(FALSE, Dictionary([k |-> Integer(1)]))],
     [p \in {SandboxedPath} |-> PlistFile(FALSE, EmptyDict)],
     [p \in {AbsolutePath} |-> PlistFile(FALSE, Array(<<>>))]}

ApplyDomains == {<<"x", ".plist">>, <<"/", "x">>}
\* the preference maps of the documents
ApplyPrefs ==
    {<<>>,
     DictInsert(<<>>, BANG, String("")),
     DictInsert([k |-> Integer(1)], ELLIPSIS, Integer(1)),
     [k |-> Integer(1)],
     DictInsert([k |-> Integer(1)], BANG, String("")),
     [k |-> Array(<<Integer(1), String(ELLIPSIS), String(ELLIPSIS)>>)],
     [k |-> Dictionary(DictInsert([b |-> Integer(2)], BANG, String("")))],
     [k |-> Dictionary([a |-> Array(<<String(ELLIPSIS)>>)])]}

\* the current_host flag of the document is the same for every call of the run
Init ==
    /\ home_dir = Ok(HOME)
    /\ hardware_uuid \in {Ok(UUID), Err("ioreg failed")}
    /\ files \in InitialFileSystems
    /\ dirs = {} /\ sudo_calls = 0
    /\ current_host \in BOOLEAN
    /\ domain = <<>> /\ resolved = NotCalled /\ store_read = NotLoaded
    /\ ApplyIdle /\ MergeIdle /\ DocIdle

WriteDefaultsValues ==
    /\ \E dom \in ApplyDomains, prefs \in ApplyPrefs : Begin(dom, prefs, current_host)
    /\ UNCHANGED docVars

Next ==
    \/ WriteDefaultsValues
    \/ Backup
    \/ CreateDir
    \/ DirectWrite
    \/ SudoWrite

Spec == Init /\ [][Next]_vars

(***************************************************************************)
(* The apply command (main.rs, cmd/apply.rs): main visits the YAML files   *)
(* of the path, apply_defaults the documents of a file and                 *)
(* process_yaml_document the domains of a document, calling                *)
(* write_defaults_values for each of them.  The files and documents are    *)
(* drawn as they are read.                                                 *)
(***************************************************************************)
MaxDomains == 2      \* most domains of a document
MaxDocs == 2         \* documents read in one run

\* Option::Some
Some(v) == <<"some", v>>

DocDomains == {<<"x">>, <<"x", ".plist">>, <<"/", "x">>}
DocPrefs == {[k |-> Integer(1)], [k |-> Integer(2)]}
\* DefaultsConfig: a map from domains to preference maps
DocData ==
    {d \in UNION {[S -> DocPrefs] : S \in SUBSET DocDomains} :
        Cardinality(DOMAIN d) <= MaxDomains}
\* MacOSDefaults, as far as apply reads it
Documents ==
    {[valid |-> TRUE, current_host |-> FALSE, kill |-> k, data |-> d] :
        k \in {None, Some(<<"Dock">>)}, d \in DocData}

\* the values of --exit-code
ExitCodes == {0, 2, 256}
Running == <<"running">>
\* std::process::exit(code) of a run started with --exit-code exit_code: the
\* parent sees the low 8 bits of the code
Exited(exit_code, code) == <<"exited", exit_code, code % 256>>
\* main returns Err: the process ends with status 1
ExitFailure(exit_code) == Exited(exit_code, 1)

DocFileSystems ==
    {<<>>,
     (StandardPath :> PlistFile(TRUE, Dictionary([k |-> Integer(1)])))
        @@ (AbsolutePath :> PlistFile(FALSE, Array(<<>>)))}

InitDoc ==
    /\ home_dir = Ok(HOME)
    /\ hardware_uuid = Ok(UUID)
    /\ files \in DocFileSystems
    /\ dirs = {} /\ sudo_calls = 0
    /\ dpc = "main" /\ config = InvalidDocument /\ defaults = <<>> /\ results = <<>>
    /\ killed = <<>> /\ document_result = NotCalled
    /\ any_changed = FALSE /\ changed = FALSE /\ exit_status = Running
    /\ documents_read = 0 /\ changes_applied = FALSE
    /\ PathIdle /\ ApplyIdle /\ MergeIdle

\* main: the next file of process_path, up to the call of apply_defaults
\* (fs::metadata, File::open)
MainNextFile ==
    /\ dpc = "main"
    /\ \E readable \in BOOLEAN :
        IF readable
        THEN /\ dpc' = "apply_defaults"
             /\ any_changed' = FALSE
             /\ UNCHANGED exit_status
        ELSE /\ dpc' = "failed"
             /\ \E exit_code \in ExitCodes : exit_status' = ExitFailure(exit_code)
             /\ UNCHANGED any_changed
    /\ UNCHANGED <<config, defaults, results, killed, document_result, changed,
                   documents_read, changes_applied, hostVars, mergeVars, pathVars, applyVars>>

\* main: no file is left, std::process::exit(if changed { exit_code } else { 0 })
MainExit ==
    /\ dpc = "main"
    /\ \E exit_code \in ExitCodes :
        exit_status' = Exited(exit_code, IF changed THEN exit_code ELSE 0)
    /\ dpc' = "exited"
    /\ UNCHANGED <<config, defaults, results, killed, document_result, any_changed,
                   changed, documents_read, changes_applied,
                   hostVars, mergeVars, pathVars, applyVars>>

\* apply_defaults: the next document of the file, and process_yaml_document
\* up to the loop over the domains (config also records, as files_found, the
\* file system the document finds)
ApplyDefaultsNextDocument ==
    /\ dpc = "apply_defaults"
    /\ documents_read < MaxDocs
    /\ documents_read' = documents_read + 1
    /\ \E doc \in Documents \cup {InvalidDocument} :
        /\ config' = IF doc.valid THEN [files_found |-> files] @@ doc ELSE doc
        /\ results' = <<>>
        /\ IF ~doc.valid
           THEN /\ defaults' = <<>>
                /\ document_result' = Err("InvalidYaml")
                /\ dpc' = "failed"
                /\ \E exit_code \in ExitCodes : exit_status' = ExitFailure(exit_code)
           ELSE /\ defaults' = doc.data
                /\ document_result' = NotCalled
                /\ dpc' = "process_yaml_document"
                /\ UNCHANGED exit_status
    /\ UNCHANGED <<killed, any_changed, changed, changes_applied,
                   hostVars, mergeVars, pathVars, applyVars>>

\* apply_defaults: no document is left, Ok(any_changed) returns to main
ApplyDefaultsReturn ==
    /\ dpc = "apply_defaults"
    /\ changed' = (changed \/ any_changed)
    /\ dpc' = "main"
    /\ UNCHANGED <<config, defaults, results, killed, document_result, any_changed,
                   exit_status, documents_read, changes_applied,
                   hostVars, mergeVars, pathVars, applyVars>>

\* process_yaml_document: the next entry of the domain map, in the order of
\* the HashMap, and the call of write_defaults_values
CallWriteDefaultsValues ==
    /\ dpc = "process_yaml_document"
    /\ \E dom \in DOMAIN defaults :
        /\ Begin(dom, defaults[dom], config.current_host)
        /\ defaults' = DictRemove(defaults, dom)
    /\ dpc' = "write_defaults_values"
    /\ UNCHANGED <<config, results, killed, document_result, any_changed, changed,
                   exit_status, documents_read, changes_applied>>

\* process_yaml_document: write_defaults_values returned (its locals are
\* dropped), its result is collected
CollectResult ==
    /\ dpc = "write_defaults_values"
    /\ pc = "idle"
    /\ results' = Append(results, [domain |-> call.domain, result |-> outcome])
    /\ changes_applied' = (changes_applied \/ (outcome.ok /\ outcome.value))
    /\ call' = <<>>
    /\ outcome' = NotCalled
    /\ dpc' = "process_yaml_document"
    /\ UNCHANGED <<config, defaults, killed, document_result, any_changed, changed,
                   exit_status, documents_read, pc, applies,
                   hostVars, mergeVars, pathVars>>

\* Result::is_err, for the partition of the results
IsErr(r) == ~r.result.ok
ChangedOnlyIfAllPassed(rs) ==
    /\ \A i \in 1..Len(rs) : rs[i].result.ok
    /\ \E i \in 1..Len(rs) : rs[i].result.ok /\ rs[i].result.value
\* passed.iter().any(|r| matches!(r, Ok(true)))
Changed(rs) == \E i \in 1..Len(rs) : rs[i].result.ok /\ rs[i].result.value

\* the processes of the kill list
KillList(doc) == IF doc.kill = None THEN <<>> ELSE doc.kill[2]

\* process_yaml_document after the loop: partition, kill, the result (the
\* locals are dropped); an error returns through apply_defaults and main
FinishDocument ==
    /\ dpc = "process_yaml_document"
    /\ DOMAIN defaults = {}
    /\ LET errors == SelectSeq(results, IsErr) IN
       /\ killed' = IF Changed(results) THEN killed \o KillList(config) ELSE killed
       /\ IF errors = <<>>
          THEN /\ document_result' = Ok(Changed(results))
               /\ any_changed' = (any_changed \/ Changed(results))
               /\ dpc' = "apply_defaults"
               /\ UNCHANGED exit_status
          ELSE /\ document_result' = errors[1].result
               /\ dpc' = "failed"
               /\ \E exit_code \in ExitCodes : exit_status' = ExitFailure(exit_code)
               /\ UNCHANGED any_changed
    /\ config' = InvalidDocument
    /\ results' = <<>>
    /\ UNCHANGED <<defaults, changed, documents_read, changes_applied,
                   hostVars, mergeVars, pathVars, applyVars>>

NextDoc ==
    \/ MainNextFile
    \/ MainExit
    \/ ApplyDefaultsNextDocument
    \/ ApplyDefaultsReturn
    \/ CallWriteDefaultsValues
    \/ CollectResult
    \/ FinishDocument
    \/ Backup
    \/ CreateDir
    \/ DirectWrite
    \/ SudoWrite

SpecDoc == InitDoc /\ [][NextDoc]_vars

(***************************************************************************)
(* Inputs of the merge harness.                                            *)
(***************************************************************************)
Scalars == {Integer(i) : i \in 1..MaxInt}
Elements == Scalars \cup {String(ELLIPSIS)}

SeqsUpTo(S, n) == UNION {[1..k -> S] : k \in 0..n}
DictsUpTo(K, V, n) == UNION {[ks -> V] : ks \in {s \in SUBSET K : Cardinality(s) <= n}}

NewArrays == {Array(s) : s \in SeqsUpTo(Elements, MaxLen)}
OldArrays == {Array(s) : s \in SeqsUpTo(Scalars, MaxLen)}
NestedNewArrays == {Array(s) : s \in SeqsUpTo(Elements, MaxLen - 1)}
NestedOldArrays == {Array(s) : s \in SeqsUpTo(Scalars, MaxLen - 1)}

NestedNewDicts == {Dictionary(f) : f \in DictsUpTo({"a", "b", BANG, ELLIPSIS}, Scalars, MaxKeys)}
NestedOldDicts == {Dictionary(f) : f \in DictsUpTo({"a", "b"}, Scalars, MaxKeys)}

NewChildren == Scalars \cup NestedNewArrays \cup NestedNewDicts
OldChildren == Scalars \cup NestedOldArrays \cup NestedOldDicts

\* a dictionary with an optional child under "a" and optional "b", "!" and "..." entries
WithOpt(f, k, v, present) == IF present THEN DictInsert(f, k, v) ELSE f
NewDicts ==
    {Dictionary(WithOpt(WithOpt(WithOpt(WithOpt(<<>>, "a", c, c # None),
                                  "b", Integer(1), hasB), BANG, String(""), hasBang),
                  ELLIPSIS, Integer(1), hasEll)) :
        <<c, hasB, hasBang, hasEll>> \in
            (NewChildren \cup {None}) \X BOOLEAN \X BOOLEAN \X BOOLEAN}
OldDicts ==
    {Dictionary(WithOpt(WithOpt(<<>>, "a", c, c # None), "b", Integer(MaxInt), hasB)) :
        <<c, hasB>> \in (OldChildren \cup {None}) \X BOOLEAN}

\* arrays holding one array
NewArraysOfArrays == {Array(<<Array(s)>>) : s \in SeqsUpTo(Elements, 1)}
OldArraysOfArrays == {Array(<<Array(<<Integer(1)>>)>>)}

NewValues == Scalars \cup NewArrays \cup NewDicts \cup NewArraysOfArrays
OldValues == {None} \cup Scalars \cup OldArrays \cup OldDicts \cup OldArraysOfArrays

(***************************************************************************)
(* The merge harness: a caller picks (new_value, old_value) and calls one  *)
(* of the three functions; after merge_value it may merge the same new     *)
(* value against the result.                                               *)
(***************************************************************************)
InitMerge ==
    /\ new_value \in NewValues
    /\ old_value \in OldValues
    /\ op = "none"
    /\ result = None
    /\ result2 = None
    /\ PathIdle /\ HostIdle /\ ApplyIdle /\ DocIdle

CallMergeValue ==
    /\ op = "none"
    /\ op' = "merge_value"
    /\ result' = merge_value(new_value, old_value)
    /\ UNCHANGED <<new_value, old_value, result2, hostVars, pathVars, applyVars, docVars>>

CallMergeAgain ==
    /\ op = "merge_value"
    /\ op' = "merge_again"
    /\ result2' = merge_value(new_value, result)
    /\ UNCHANGED <<new_value, old_value, result, hostVars, pathVars, applyVars, docVars>>

CallReplaceEllipsisArray ==
    /\ op = "none"
    /\ op' = "replace_ellipsis_array"
    /\ result' = replace_ellipsis_array(new_value, old_value)
    /\ UNCHANGED <<new_value, old_value, result2, hostVars, pathVars, applyVars, docVars>>

CallDeepMergeDictionaries ==
    /\ op = "none"
    /\ op' = "deep_merge_dictionaries"
    /\ result' = deep_merge_dictionaries(new_value, old_value)
    /\ UNCHANGED <<new_value, old_value, result2, hostVars, pathVars, applyVars, docVars>>

NextMerge ==
    \/ CallMergeValue
    \/ CallMergeAgain
    \/ CallReplaceEllipsisArray
    \/ CallDeepMergeDictionaries

SpecMerge == InitMerge /\ [][NextMerge]_vars

(***************************************************************************)
(* Properties of the merge functions, checked under SpecMerge.             *)
(***************************************************************************)
IsMarker(e) == e = String(ELLIPSIS)
NotMarker(e) == e # String(ELLIPSIS)
RECURSIVE Dedup(_, _)
\* s appended to acc, keeping the first occurrence of every element
Dedup(acc, s) ==
    IF s = <<>> THEN acc
    ELSE Dedup(IF Contains(acc, Head(s)) THEN acc ELSE Append(acc, Head(s)), Tail(s))
BeforeMarker(s) == SubSeq(s, 1, Position(s, String(ELLIPSIS)) - 1)
AfterMarker(s) == SubSeq(s, Position(s, String(ELLIPSIS)) + 1, Len(s))

RECURSIVE HasMarker(_)
\* a value holds "..." as an array element or dictionary key, or "!" as a
\* dictionary key, at some depth
HasMarker(v) ==
    IF IsArray(v) THEN \E i \in 1..Len(v[2]) : IsMarker(v[2][i]) \/ HasMarker(v[2][i])
    ELSE IF IsDict(v) THEN \/ BANG \in DOMAIN v[2]
                           \/ ELLIPSIS \in DOMAIN v[2]
                           \/ \E k \in DOMAIN v[2] : HasMarker(v[2][k])
    ELSE FALSE

MergedDict == op \in {"merge_value", "deep_merge_dictionaries"} /\ IsDict(new_value)

\* C1: merge idempotence: with r = merge(new, old), merge(new, r) = r.
C1_MergeIdempotent == op = "merge_again" => result2 = result

\* C2: ellipsis array law: for a new array holding the marker and an old
\* array, the result is the new elements before the marker, then the old
\* elements not yet emitted, then the new elements after the marker not yet
\* emitted, without duplicates; when old is none or not an array, the result
\* is the new array with the marker dropped.
C2_EllipsisArrayLaw ==
    (op = "replace_ellipsis_array" /\ IsArray(new_value) /\ Contains(new_value[2], String(ELLIPSIS))) =>
        IF IsArray(old_value)
        THEN result = Array(Dedup(<<>>, BeforeMarker(new_value[2]) \o old_value[2]
                                        \o SelectSeq(AfterMarker(new_value[2]), NotMarker)))
        ELSE result = Array(SelectSeq(new_value[2], NotMarker))

\* the bang law at one node: new (holding "!") merged against the dictionary old gave r
BangLawOriginal(new, old, r) ==
    (IsDict(new) /\ BANG \in DOMAIN new[2] /\ IsDict(old)) =>
        r = Dictionary(DictRemove(new[2], BANG))
BangLaw(new, old, r) ==
    (IsDict(new) /\ BANG \in DOMAIN new[2] /\ IsDict(old)) =>
        /\ IsDict(r)
        /\ DOMAIN r[2] = (DOMAIN new[2]) \ {BANG, ELLIPSIS}
        /\ \A k \in DOMAIN r[2] : r[2][k] = merge_value(new[2][k], DictGet(old[2], k))

\* the node under key "a" of new, old and the result, when all three have one
NestedA(P(_, _, _)) ==
    (/\ IsDict(new_value) /\ "a" \in DOMAIN new_value[2]
     /\ IsDict(old_value) /\ "a" \in DOMAIN old_value[2]
     /\ IsDict(result) /\ "a" \in DOMAIN result[2]) =>
        P(new_value[2]["a"], old_value[2]["a"], result[2]["a"])

DeepMergeLawOriginal(new, old, r) ==
    (IsDict(new) /\ DOMAIN new[2] # {} /\ BANG \notin DOMAIN new[2] /\ IsDict(old)) =>
        /\ IsDict(r)
        /\ DOMAIN r[2] = (DOMAIN new[2]) \cup (DOMAIN old[2])
        /\ \A k \in (DOMAIN old[2]) \ (DOMAIN new[2]) : r[2][k] = old[2][k]
        /\ \A k \in DOMAIN new[2] :
            /\ ~IsDict(new[2][k]) => r[2][k] = new[2][k]
            /\ (IsDict(new[2][k]) /\ IsDict(DictGet(old[2], k))) =>
                   r[2][k] = merge_value(new[2][k], old[2][k])
HasEllipsis(v) == IsArray(v) /\ Contains(v[2], String(ELLIPSIS))
DeepMergeLaw(new, old, r) ==
    (IsDict(new) /\ DOMAIN new[2] # {} /\ BANG \notin DOMAIN new[2] /\ IsDict(old)) =>
        LET kept == (DOMAIN new[2]) \ {ELLIPSIS} IN
        /\ IsDict(r)
        /\ DOMAIN r[2] = kept \cup (DOMAIN old[2])
        /\ \A k \in (DOMAIN old[2]) \ kept : r[2][k] = old[2][k]
        /\ \A k \in kept :
            /\ (~IsDict(new[2][k]) /\ ~HasEllipsis(new[2][k])) => r[2][k] = new[2][k]
            /\ (IsDict(new[2][k]) /\ IsDict(DictGet(old[2], k))) =>
                   r[2][k] = merge_value(new[2][k], old[2][k])

\* C4 (as claimed): a non-empty new dictionary without "!" merged against an old
\* dictionary has the keys of both; old-only keys keep the old value, a new
\* non-dictionary value is kept, two dictionaries are merged recursively.
C4_DeepMergeLawOriginal ==
    MergedDict => DeepMergeLawOriginal(new_value, old_value, result) /\ NestedA(DeepMergeLawOriginal)

\* C4 (amended): the same, except that the legacy "..." key of new is dropped
\* (the key set is (keys(new) \ {"..."}) \cup keys(old)) and that a new array
\* holding the ellipsis marker is not kept but has the old array substituted.
C4_DeepMergeLaw ==
    MergedDict => DeepMergeLaw(new_value, old_value, result) /\ NestedA(DeepMergeLaw)
C4_Witness ==
    /\ MergedDict /\ IsDict(old_value)
    /\ BANG \notin DOMAIN new_value[2]
    /\ "b" \in DOMAIN new_value[2] /\ "b" \in DOMAIN old_value[2]
    /\ result[2]["b"] = new_value[2]["b"] /\ result[2]["b"] # old_value[2]["b"]
    /\ "a" \in DOMAIN new_value[2] /\ "a" \in DOMAIN old_value[2]
    /\ IsDict(new_value[2]["a"]) /\ IsDict(old_value[2]["a"])
    /\ "a" \in DOMAIN new_value[2]["a"][2]
    /\ BANG \notin DOMAIN new_value[2]["a"][2]
    /\ "b" \in (DOMAIN old_value[2]["a"][2]) \ (DOMAIN new_value[2]["a"][2])
    /\ result[2]["a"][2]["b"] = old_value[2]["a"][2]["b"]

\* C5: an empty new dictionary, top-level or nested, stays empty against any
\* old dictionary, whereas a non-empty new dictionary (without "!") receives
\* every old key it lacks.
EmptyLaw(new, old, r) ==
    /\ (new = EmptyDict /\ IsDict(old)) => r = EmptyDict
    /\ (IsDict(new) /\ new # EmptyDict /\ BANG \notin DOMAIN new[2] /\ IsDict(old)) =>
           (DOMAIN old[2]) \subseteq (DOMAIN r[2])
C5_EmptyNewDict ==
    MergedDict => EmptyLaw(new_value, old_value, result) /\ NestedA(EmptyLaw)
C5_Witness ==
    /\ MergedDict /\ IsDict(old_value)
    /\ "a" \in DOMAIN new_value[2] /\ "a" \in DOMAIN old_value[2]
    /\ new_value[2]["a"] = EmptyDict
    /\ IsDict(old_value[2]["a"]) /\ old_value[2]["a"] # EmptyDict
    /\ result[2]["a"] = EmptyDict
    /\ "b" \in (DOMAIN old_value[2]) \ (DOMAIN new_value[2])
    /\ BANG \notin DOMAIN new_value[2]
    /\ "b" \in DOMAIN result[2]

\* the value at the position of key in old, none when old has no such position
OldAtKey(old, key) == IF IsDict(old) THEN DictGet(old[2], key) ELSE None
\* the value at the position of index i in old
OldAtIndex(old, i) == IF IsArray(old) /\ i <= Len(old[2]) THEN old[2][i] ELSE None

\* C20: merge recurses through nested dictionaries and arrays.  The value
\* under a key of a new dictionary, and the element of a new array (one
\* without a marker of its own, so that positions are kept), is merged by the
\* same two rules against the value at the same position in old, or against
\* none when old has no such position.
C20_MergeRecurses ==
    op = "merge_value" =>
        /\ (IsDict(new_value) /\ "a" \in DOMAIN new_value[2]) =>
               /\ IsDict(result) /\ "a" \in DOMAIN result[2]
               /\ result[2]["a"] = merge_value(new_value[2]["a"], OldAtKey(old_value, "a"))
        /\ (IsArray(new_value) /\ ~HasEllipsis(new_value)) =>
               /\ IsArray(result) /\ Len(result[2]) = Len(new_value[2])
               /\ \A i \in 1..Len(new_value[2]) :
                      result[2][i] = merge_value(new_value[2][i], OldAtIndex(old_value, i))

(***************************************************************************)
(* Properties of plist_path, checked under SpecPath.                       *)
(***************************************************************************)
PathCalled == resolved.ok \/ resolved.error # "not called"

\* a domain with one trailing suffix removed
StripSuffixOnce(d, suffix) ==
    IF Len(d) > 0 /\ d[Len(d)] = suffix THEN SubSeq(d, 1, Len(d) - 1) ELSE d

\* the rule table of path resolution, for a given way of stripping ".plist"
PathTable(Strip(_, _)) ==
    PathCalled =>
        IF StartsWithSlash(domain) THEN resolved = Ok(<<Text(domain)>>)
        ELSE home_dir.ok =>
            IF current_host /\ ~hardware_uuid.ok THEN ~resolved.ok
            ELSE LET global == domain = NS_GLOBAL_DOMAIN
                     name == IF global THEN ".GlobalPreferences"
                             ELSE Text(Strip(domain, ".plist"))
                     filename == IF current_host
                                 THEN name \o "." \o hardware_uuid.value \o ".plist"
                                 ELSE name \o ".plist"
                     folders == IF current_host
                                THEN <<"Library", "Preferences", "ByHost">>
                                ELSE <<"Library", "Preferences">>
                     standard == <<home_dir.value>> \o folders \o <<filename>>
                     sandboxed == SelectSeq(<<home_dir.value, "Library", "Containers",
                                              name, "Data">>, NonEmpty)
                                  \o folders \o <<filename>>
                 IN  IF ~global /\ sandboxed \in DOMAIN files
                     THEN resolved = Ok(sandboxed)
                     ELSE resolved = Ok(standard)

\* C9: path resolution follows the rule table: an absolute domain is returned
\* unchanged; the global domain resolves to .GlobalPreferences.plist; any other
\* domain, with a trailing ".plist" stripped, resolves to the sandboxed file if
\* it exists and to the standard file otherwise; current_host adds the ByHost
\* folder and the hardware UUID, and fails when the UUID query fails.
C9_PathTable == PathTable(StripSuffixOnce)

\* C10: for a domain given as a full path, the ".plist" extension is optional:
\* <path> and <path>.plist resolve to the same file.
C10_PlistExtensionOptional ==
    (PathCalled /\ StartsWithSlash(domain)) =>
        resolved = plist_path(Append(domain, ".plist"), current_host)

(***************************************************************************)
(* Properties of resolve-and-load, checked under SpecLoad.                 *)
(***************************************************************************)
\* C18: loading an absent store yields an empty dictionary.  For a domain
\* whose resolved file does not exist, resolve-and-load returns an empty
\* dictionary and no error, for the apply path and for the dump path.
C18_AbsentStoreLoadsEmpty ==
    (store_read # NotLoaded /\ resolved.ok /\ ~Exists(resolved.value)) =>
        (store_read[2].ok /\ store_read[2].value = EmptyDict)

(***************************************************************************)
(* Properties of write_defaults_values, checked under Spec.                *)
(***************************************************************************)
Returned == pc = "idle" /\ applies > 0
ReturnedChanged == Returned /\ outcome.ok /\ outcome.value
ReturnedUnchanged == Returned /\ outcome.ok /\ ~outcome.value

\* for every key of the preference map of the call c, the merged value equals
\* the value stored under that key in the file of the domain
NoOpCase(c) ==
    LET path == plist_path(c.domain, c.current_host) IN
    /\ path.ok
    /\ LoadPlist(path.value).ok
    /\ LET stored == LoadPlist(path.value).value IN
       \A key \in DOMAIN c.prefs :
           /\ IsDict(stored)
           /\ key \in DOMAIN stored[2]
           /\ merge_value(c.prefs[key], stored[2][key]) = stored[2][key]

\* C6: when for every key of the preference map the merged value equals the
\* stored value, write_defaults_values returns changed = false and mutates
\* nothing: no file (store or .prev) is written, no directory is created, the
\* privileged helper is not invoked.
C6_NoOpApply ==
    [][(pc = "idle" /\ NoOpCase(call')) =>
           /\ pc' = "idle"
           /\ outcome'.ok /\ ~outcome'.value
           /\ UNCHANGED <<files, dirs, sudo_calls>>]_vars
C6_Witness ==
    /\ ReturnedUnchanged
    /\ "k" \in DOMAIN call.prefs
    /\ NoOpCase(call)
    /\ BackupPath(plist_path(call.domain, call.current_host).value) \notin DOMAIN files

\* C7: a changing apply never changes the encoding of a store that existed:
\* a binary store is rewritten as binary, an XML store as XML, and a store
\* that did not exist is created as binary, by the direct write or by the
\* privileged fallback.
C7_EncodingPreserved ==
    ReturnedChanged =>
        files[call.plist_path].binary =
            (IF call.plist_path_exists THEN call.old_file.binary ELSE TRUE)
C7_Witness ==
    /\ ReturnedChanged
    /\ applies = 2
    /\ call.plist_path_exists
    /\ call.old_file.binary
    /\ Parent(call.plist_path) \in dirs
    /\ sudo_calls = 1
    /\ files[call.plist_path].binary

\* C8: starting from stores without markers, no persisted store ever holds
\* "..." as an array element or dictionary key, or "!" as a dictionary key, at
\* any depth.
C8_NoMarkerPersisted ==
    \A p \in DOMAIN files : ~HasMarker(files[p].value)

\* C11: backup before overwrite.  A step of an apply that changes the target
\* of a store that existed finds <path>.prev holding the contents the target
\* had before the apply; a failed backup copy ends the apply with the backup
\* error and leaves the target as it was; an apply to a store that did not
\* exist produces no .prev.
C11_BackupBeforeOverwrite ==
    [][pc # "idle" =>
          LET target == call.plist_path
              backup == BackupPath(call.plist_path)
          IN  /\ (call.plist_path_exists /\ files'[target] # files[target]) =>
                     (backup \in DOMAIN files /\ files[backup] = call.old_file)
              /\ (pc = "backup" /\ pc' = "idle") =>
                     (outcome' = Err("FileCopy") /\ files'[target] = files[target])
              /\ ~call.plist_path_exists =>
                     (backup \in DOMAIN files' <=> backup \in DOMAIN files)]_vars
C11_Witness ==
    /\ ReturnedChanged
    /\ call.plist_path_exists
    /\ files[call.plist_path].value # call.old_file.value
    /\ files[BackupPath(call.plist_path)] = call.old_file
    /\ sudo_calls = 0

\* the ways the direct write fails
PermissionFailure == {"permission_denied"}
OtherFailures == {"plist_error", "io_error", "io_error_truncated"}

\* C12: escalation only on permission failure.  The privileged helper is
\* invoked if and only if the direct write failed with a permission-class I/O
\* error; after any other failure of the direct write the apply returns a
\* write failure and the helper is not invoked.
C12_EscalationOnlyOnPermission ==
    [][/\ (sudo_calls' # sudo_calls) => call.write_result \in PermissionFailure
       /\ (pc = "write" /\ call'.write_result \in PermissionFailure) => pc' = "sudo"
       /\ (pc = "write" /\ call'.write_result \in OtherFailures) =>
              (pc' = "idle" /\ ~outcome'.ok /\ sudo_calls' = sudo_calls)]_vars

\* C15: domain-scoped bang reset.  After a successful apply of a preference
\* map holding the top-level key "!", the store holds exactly the merged
\* values of the other keys of the map (none included) and no key that was
\* stored before.
C15_BangReset ==
    (Returned /\ outcome.ok /\ BANG \in DOMAIN call.prefs) =>
        LET path == plist_path(call.domain, call.current_host).value
            others == DictRemove(call.prefs, BANG)
        IN  LoadPlist(path) =
                Ok(Dictionary([key \in DOMAIN others |-> merge_value(others[key], None)]))

\* C17: the store is never left half-written.  In every state of an apply,
\* and after it, the file at the resolved path holds the complete previous
\* dictionary or the complete new one (or does not exist yet), never a
\* partial serialization.
C17_NeverHalfWritten ==
    ("plist_path" \in DOMAIN call) =>
        IF call.plist_path \in DOMAIN files
        THEN files[call.plist_path].value \in {call.old_file.value, call.plist_value}
        ELSE ~call.plist_path_exists

\* the call c finds a store whose top-level value is not a dictionary and
\* applies a preference map with at least one key
ShapeCase(c) ==
    LET path == plist_path(c.domain, c.current_host) IN
    /\ path.ok
    /\ Exists(path.value)
    /\ LoadPlist(path.value).ok
    /\ ~IsDict(LoadPlist(path.value).value)
    /\ DOMAIN c.prefs # {}
\* the call c fails in this step with NotADictionary, carrying the domain, a
\* key of the map and the type name of the stored value, and writes nothing
ShapeFailure(c) ==
    /\ pc' = "idle"
    /\ ~outcome'.ok
    /\ outcome'.error = "NotADictionary"
    /\ outcome'.domain = Text(c.domain)
    /\ outcome'.key \in DOMAIN c.prefs
    /\ outcome'.plist_type = files[plist_path(c.domain, c.current_host).value].value[1]
    /\ UNCHANGED <<files, dirs, sudo_calls>>
\* a step that starts a call of write_defaults_values
CallStarts == applies' = applies + 1

\* C19 (as claimed): an apply of a preference map with at least one key to a
\* store whose top-level value is not a dictionary fails with NotADictionary
\* (domain, offending key, type name) and performs no backup and no write.
C19_ShapeFailureOriginal ==
    [][(CallStarts /\ ShapeCase(call')) => ShapeFailure(call')]_vars

\* C19 (amended): the same for a preference map with at least one key and
\* without the top-level key "!" (which discards the stored value before any
\* key is read).
C19_ShapeFailure ==
    [][(CallStarts /\ ShapeCase(call') /\ BANG \notin DOMAIN call'.prefs) =>
           ShapeFailure(call')]_vars
C19_Witness ==
    /\ Returned
    /\ ~outcome.ok
    /\ outcome.error = "NotADictionary"
    /\ outcome.plist_type = "array"
    /\ outcome.key = "k"
    /\ ELLIPSIS \in DOMAIN call.prefs
    /\ BackupPath(AbsolutePath) \notin DOMAIN files
    /\ files[AbsolutePath].value = Array(<<>>)

\* the dictionary the call c found stored (an empty one when there was no file)
StoredBefore(c) == IF c.plist_path_exists THEN c.old_file.value ELSE EmptyDict
\* the store new keeps every key of the dictionary old, those that prefs does
\* not name with their value, and differs from old only at keys that prefs
\* names, which hold the merged value, different from the stored one
KeysPreserved(old, new, prefs) ==
    /\ \A key \in DOMAIN old[2] :
           /\ IsDict(new)
           /\ key \in DOMAIN new[2]
           /\ key \notin DOMAIN prefs => new[2][key] = old[2][key]
    /\ IsDict(new) =>
           \A key \in DOMAIN new[2] :
               DictGet(old[2], key) # new[2][key] =>
                   /\ key \in DOMAIN prefs
                   /\ new[2][key] = merge_value(prefs[key], DictGet(old[2], key))
\* a step of an apply of a preference map without the top-level key "!"
StepWithoutBang == "prefs" \in DOMAIN call' /\ BANG \notin DOMAIN call'.prefs

\* C21: untouched keys are preserved.  In every step of an apply whose
\* preference map has no top-level "!", the persisted store keeps every
\* top-level key it held before the apply, the keys the map does not name with
\* their previous value, and only keys of the map whose merged value differs
\* from the stored one are rewritten; an apply that decides not to write
\* leaves the files as they are.
C21_UntouchedKeysPreserved ==
    [][StepWithoutBang =>
          IF "plist_path" \in DOMAIN call'
          THEN call'.plist_path \in DOMAIN files' =>
                   KeysPreserved(StoredBefore(call'), files'[call'.plist_path].value,
                                 call'.prefs)
          ELSE UNCHANGED files]_vars

\* the same for the applies that return Ok(true)
PreservedWhenWritten ==
    (ReturnedChanged /\ BANG \notin DOMAIN call.prefs) =>
        KeysPreserved(StoredBefore(call), files[call.plist_path].value, call.prefs)

(***************************************************************************)
(* Properties of the apply command, checked under SpecDoc.                 *)
(***************************************************************************)
\* the step in which process_yaml_document leaves the loop over the domains
\* and returns
DocumentReturns == dpc = "process_yaml_document" /\ DOMAIN defaults = {} /\ dpc' # dpc
SomeFailed(rs) == \E i \in 1..Len(rs) : ~rs[i].result.ok
SomeChanged(rs) == \E i \in 1..Len(rs) : rs[i].result.ok /\ rs[i].result.value

\* C13: cross-domain policy.  When a document returns, every domain of it
\* has been attempted exactly once, whatever the results of the others; the
\* result of the document is a failure if and only if some domain failed;
\* the processes of the kill list are terminated if and only if some domain
\* returned changed = true, also when another domain failed.
C13_CrossDomainPolicy ==
    [][DocumentReturns =>
          /\ Len(results) = Cardinality(DOMAIN config.data)
          /\ \A dom \in DOMAIN config.data :
                 Cardinality({i \in 1..Len(results) : results[i].domain = dom}) = 1
          /\ (~document_result'.ok) <=> SomeFailed(results)
          /\ killed' = IF SomeChanged(results) THEN killed \o KillList(config)
                        ELSE killed]_vars
C13_Witness ==
    /\ dpc = "failed"
    /\ documents_read = 1
    /\ applies = 2
    /\ ~document_result.ok
    /\ killed = <<"Dock">>

\* what a Result<bool> tells its caller
ReportsFailure(r) == ~r.ok
ReportsChange(r) == r.ok /\ r.value

\* C14: partial success is a distinct outcome.  The result of a document
\* tells its caller whether some domain failed and whether some domain
\* changed, so that "changed and failed" differs from "all succeeded" and
\* from "failed, nothing changed".
C14_PartialSuccessDistinct ==
    [][DocumentReturns =>
          /\ ReportsFailure(document_result') <=> SomeFailed(results)
          /\ ReportsChange(document_result') <=> SomeChanged(results)]_vars

\* C16: exit code of apply.  If changes were applied to some store during
\* the run, the process exits with the value given as --exit-code; if no
\* change was applied and nothing failed, it exits with 0.
C16_ExitCode ==
    /\ (dpc \in {"exited", "failed"} /\ changes_applied) => exit_status[3] = exit_status[2]
    /\ (dpc = "exited" /\ ~changes_applied) => exit_status[3] = 0

\* the value held at a path of the file system fs
ValueAt(fs, path) == IF path \in DOMAIN fs THEN fs[path].value ELSE NoFile.value
\* the file a domain of the document resolves to
PathOf(dom) == plist_path(dom, config.current_host).value
\* the orders in which a HashMap may yield its keys
Orders(keys) ==
    {order \in [1..Cardinality(keys) -> keys] :
        \A i, j \in DOMAIN order : i # j => order[i] # order[j]}

\* a store, its backup and the changed flag before any domain is processed
FoundAt(fs, path) ==
    [store |-> ValueAt(fs, path), prev |-> ValueAt(fs, BackupPath(path)), changed |-> FALSE]
\* what a call of write_defaults_values whose backup and write succeed makes
\* of a store and its backup: nothing when the load or the merge fails or
\* nothing changes, else the merged dictionary, the stored value as backup
Applied(st, dom, prefs) ==
    LET plist_path_exists == st.store # NoFile.value
        plist_value == IF plist_path_exists THEN st.store ELSE EmptyDict
        first_key == CHOOSE key \in FirstKeys(DictRemove(prefs, BANG)) : TRUE
        merged == MergeLoop(dom, WipeIfBang(plist_value, prefs),
                            DictRemove(prefs, BANG), first_key)
    IN  IF plist_value = Corrupt \/ ~merged.ok THEN st
        ELSE IF ~merged.value.changed THEN st
        ELSE [store |-> merged.value.value,
              prev |-> IF plist_path_exists THEN st.store ELSE st.prev,
              changed |-> TRUE]

RECURSIVE ProcessedIn(_, _, _, _)
\* the store at path after the domains of data were processed in the given
\* order, starting from st
ProcessedIn(st, order, data, path) ==
    IF order = <<>> THEN st
    ELSE ProcessedIn(IF PathOf(Head(order)) = path
                     THEN Applied(st, Head(order), data[Head(order)])
                     ELSE st,
                     Tail(order), data, path)

\* the store dom resolves to, after the document was processed in this order
\* from the file system it found
Reference(order, dom) ==
    ProcessedIn(FoundAt(config.files_found, PathOf(dom)), order, config.data, PathOf(dom))

\* the stores, the backups and the result of the document that returns are
\* those of processing its domains in the given order
SameAsIn(order) ==
    /\ \A dom \in DOMAIN config.data :
           /\ ValueAt(files', PathOf(dom)) = Reference(order, dom).store
           /\ ValueAt(files', BackupPath(PathOf(dom))) = Reference(order, dom).prev
    /\ document_result' = Ok(\E dom \in DOMAIN config.data : Reference(order, dom).changed)

\* when no domain failed: the stores, backups and result are those of every order
SameInEveryOrder ==
    ~SomeFailed(results) => \A order \in Orders(DOMAIN config.data) : SameAsIn(order)
\* when domains failed: the reported error is that of each of them, whichever
\* was processed first
SameErrorInEveryOrder ==
    \A i \in 1..Len(results) : IsErr(results[i]) => document_result' = results[i].result

\* C22: order independence of domains.  When a document returns and no
\* domain failed, the contents of every store and .prev file of its domains
\* and its result are those of processing the domains in any order, also when
\* two domains resolve to the same file; when domains failed, the reported
\* error does not depend on which of them was processed first.
C22_OrderIndependence ==
    [][DocumentReturns => (SameInEveryOrder /\ SameErrorInEveryOrder)]_vars

\* the domains of the document resolve to different files
DistinctStores ==
    \A d1, d2 \in DOMAIN config.data : d1 # d2 => PathOf(d1) # PathOf(d2)
\* the same for the documents whose domains resolve to different files and
\* do not fail
IndependentWhenDistinct ==
    [][(DocumentReturns /\ ~SomeFailed(results) /\ DistinctStores) =>
           \A order \in Orders(DOMAIN config.data) : SameAsIn(order)]_vars
\* the document returns with the stores, backups and result of the order in
\* which its domains were processed
ProcessedOrder == [i \in 1..Len(results) |-> results[i].domain]
SameAsProcessed ==
    [][(DocumentReturns /\ ~SomeFailed(results)) => SameAsIn(ProcessedOrder)]_vars

====
